---- MODULE Spec2Model ----
(***************************************************************************)
(* The guessing-game page (QBGuessingGame) of pfr-guesser and the game     *)
(* server it talks to.                                                     *)
(*                                                                         *)
(* The page is a React component: its state is the useState cells, and     *)
(* every handler is an async function that reads the cells through the     *)
(* closure of the render in which it was invoked.  A handler therefore     *)
(* runs in pieces: the piece up to its fetch, and the piece after the      *)
(* response, which still sees the values captured when it was invoked.     *)
(* Each pending handler is a frame of `calls` that holds those values.     *)
(*                                                                         *)
(* Two versions of the page are in the repository; `variant` says which    *)
(* one is running.  The server is not in the source tree; it is modelled   *)
(* from its specification (SessionStore, GuessEvaluator,                   *)
(* DailyPuzzleSelector).                                                   *)
(***************************************************************************)
EXTENDS Integers, Sequences, FiniteSets, TLC

(* ------------------------------ bounds -------------------------------- *)
\* handlers that may be pending at once
MaxInFlight == 2
\* sessions the server creates in one run
MaxSessions == 2
\* distinct texts the player types, besides the empty one
NumTexts == 1
\* pending setTimeout callbacks of one kind
MaxTimers == 1
\* hint buttons the player uses: the first NumHints of Seasons, Teams, Awards
NumHints == 1
\* guesses in a list whose rendering is checked
MaxRendered == 2
\* /autocomplete requests that may be in flight at once
MaxLookups == 2
\* the clock: it advances by Tick milliseconds, and the time since the last edit
\* is followed up to MaxIdle milliseconds
Tick == 50
MaxIdle == 300
\* UTC dates after the first one
MaxDays == 1
\* irregular events of one run: a handler the player starts while another one is
\* pending, a fetch that is rejected, a 5xx answer
MaxIrregular == 1

(* --------------------------- program constants ------------------------ *)
MAX_GUESSES == 8

Null == "null"

\* the null of a cell that holds a name (no player has the empty name)
NoName == << >>

Variants == {"part_000", "page"}

GameModes == {"daily", "unlimited"}

\* the messages the page puts in `error`
LoadFailedMsg == "Failed to load game. Please refresh the page."
SessionExpiredMsg == "Your session expired. A new game has been loaded!"
GuessFailedMsg == "Guess failed"
RevealFailedMsg == "Failed to reveal answer"
CopyFailedMsg == "Failed to copy to clipboard"
\* the message of the TypeError a rejected fetch throws
FetchErrorMsg == "Failed to fetch"

\* the details the server puts in a non-2xx body
SessionNotFound == "Session not found"
GameAlreadyOver == "Game already over"
UnknownPlayer == "Unknown player"

Min(a, b) == IF a < b THEN a ELSE b

(* ------------------------------- texts -------------------------------- *)
\* A text is a sequence of characters.
AllTexts == << <<"b">>, <<"A">>, <<" ">>, <<"Z">>, <<"C">> >>

Texts == {<<>>} \cup {AllTexts[i] : i \in 1..Min(NumTexts, Len(AllTexts))}

RECURSIVE TrimLeft(_)
TrimLeft(s) == IF s # <<>> /\ Head(s) = " " THEN TrimLeft(Tail(s)) ELSE s

RECURSIVE TrimRight(_)
TrimRight(s) ==
  IF s # <<>> /\ s[Len(s)] = " " THEN TrimRight(SubSeq(s, 1, Len(s) - 1)) ELSE s

\* String.prototype.trim
trim(s) == TrimRight(TrimLeft(s))

(* ------------------------ server: PlayerCatalog ----------------------- *)
Catalog ==
  << [name |-> <<"A">>, pfr_id |-> "idA",
      seasons |-> << [season |-> 2015, team |-> "X"], [season |-> 2016, team |-> "X"] >>],
     [name |-> <<"B">>, pfr_id |-> "idB",
      seasons |-> << [season |-> 2017, team |-> "X"] >>],
     [name |-> <<"C">>, pfr_id |-> "idC",
      seasons |-> << [season |-> 2018, team |-> "Y"] >>],
     [name |-> <<"D">>, pfr_id |-> "idD",
      seasons |-> << [season |-> 2022, team |-> "X"] >>] >>

Players == 1..Len(Catalog)

ToLowerChar(c) ==
  CASE c = "A" -> "a" [] c = "B" -> "b" [] c = "C" -> "c" [] c = "D" -> "d" [] c = "Z" -> "z"
    [] OTHER -> c

ToLower(s) == [i \in 1..Len(s) |-> ToLowerChar(s[i])]

\* case-insensitive exact match; 0 when no player has the name
findByName(query) ==
  IF \E p \in Players : ToLower(Catalog[p].name) = ToLower(query)
  THEN CHOOSE p \in Players : ToLower(Catalog[p].name) = ToLower(query)
  ELSE 0

(* ------------------------------ state --------------------------------- *)
VARIABLES
  variant,      \* which version of the page runs
  gameMode, sessionId, seasons, guess, guesses, loading, error,
  gameWon, gameLost, answer, answerPfrId,
  showSeasons, showTeams, showAwards,
  calls,        \* the pending handlers, oldest first
  errorTimers,  \* pending setTimeout(() => setError(null), 3000)
  irregular,    \* the irregular events so far
  timeout,      \* the setTimeout of the autocomplete effect that has not fired
  idle,         \* milliseconds since the guess input last changed
  suggestions,  \* the names of the dropdown
  lookups,      \* the /autocomplete requests in flight, oldest first
  store,        \* server: the live sessions, by session identifier
  created,      \* server: how many sessions were ever created
  today         \* server: the current UTC date, as a day number

page == << gameMode, sessionId, seasons, guess, guesses, loading, error,
           gameWon, gameLost, answer, answerPfrId,
           showSeasons, showTeams, showAwards >>

server == << store, created, today >>

\* the autocomplete of the guess input
typeahead == << timeout, idle, suggestions, lookups >>

vars == << variant, page, calls, errorTimers, irregular, typeahead, server >>

(* --------------------------- small helpers ---------------------------- *)
Remove(seq, i) == SubSeq(seq, 1, i - 1) \o SubSeq(seq, i + 1, Len(seq))

\* a request the server has not answered yet
NoResp == [status |-> 0]

\* a pending handler: what its closure captured, what it does when it resumes
Frame(kind, mode, sid, text, snap, cont) ==
  [kind |-> kind, mode |-> mode, sid |-> sid, text |-> text, snap |-> snap,
   cont |-> cont, resp |-> NoResp]

(* ------------------------------ screens ------------------------------- *)
\* if (loading) return <spinner>
LoadingScreen == loading

\* part_000: if (error && !seasons.length); page.tsx: if (error)
ErrorScreen ==
  /\ ~loading
  /\ error # Null
  /\ variant = "part_000" => seasons = <<>>

MainScreen == ~loading /\ ~ErrorScreen

\* disabled={gameWon || gameLost} on the input
InputEnabled == MainScreen /\ ~(gameWon \/ gameLost)

\* disabled={!guess.trim() || gameWon || gameLost} on the Guess button
GuessButtonEnabled == MainScreen /\ trim(guess) # <<>> /\ ~(gameWon \/ gameLost)

\* the Give Up button exists in part_000 only; disabled={gameWon || gameLost}
GiveUpEnabled == MainScreen /\ variant = "part_000" /\ ~(gameWon \/ gameLost)

\* {(gameWon || gameLost) && ( ...end card... )}
EndCardShown == MainScreen /\ (gameWon \/ gameLost)

(* ------------------------ server: the game core ----------------------- *)
Teams(p) == {Catalog[p].seasons[k].team : k \in 1..Len(Catalog[p].seasons)}

CareerStartYear(p) ==
  LET years == {Catalog[p].seasons[k].season : k \in 1..Len(Catalog[p].seasons)}
  IN CHOOSE y \in years : \A z \in years : y <= z

Abs(n) == IF n < 0 THEN -n ELSE n

\* DailyPuzzleSelector: the date hashed into an index modulo the pool size
pickForDate_by_count(date, pool) == pool[((date + created) % Len(pool)) + 1]

pickForDate(date, pool) == pool[(date % Len(pool)) + 1]

Pool == [p \in Players |-> p]

Live(s) == s \in 1..created /\ store[s].live

\* GuessEvaluator, step 3
teams_overlap(p, a) == Teams(p) \cap Teams(a) # {}

era_within_5(p, a) == IF Abs(CareerStartYear(p) - CareerStartYear(a)) <= 5 THEN "same" ELSE "far"

era(p, a) == IF Abs(CareerStartYear(p) - CareerStartYear(a)) <= 2 THEN "same" ELSE "far"

\* the guard of evaluate: the session is not terminal and has guesses left
accepts_always(s) == TRUE

accepts(s) == store[s].status = "in_progress" /\ store[s].count < MAX_GUESSES

\* const endpoint = mode === "daily" ? "/daily_qb" : "/random_qb"
endpoint_random(mode) == "/random_qb"

endpoint(mode) == IF mode = "daily" THEN "/daily_qb" ELSE "/random_qb"

\* the server: GET /daily_qb creates a daily session, GET /random_qb an unlimited one
route(path) == IF path = "/daily_qb" THEN "daily" ELSE "unlimited"

\* the server answers the frame i
Answer(i, resp) == calls' = [calls EXCEPT ![i].resp = resp]

\* SessionStore.create, behind GET /daily_qb and GET /random_qb
create(i) ==
  /\ calls[i].kind = "load" /\ calls[i].resp = NoResp
  /\ created < MaxSessions
  /\ \E a \in Players :
       /\ route(endpoint(calls[i].mode)) = "daily" => a = pickForDate(today, Pool)
       /\ store' = Append(store, [answer |-> a, mode |-> route(endpoint(calls[i].mode)),
                                  date |-> today,
                                  count |-> 0, status |-> "in_progress", live |-> TRUE])
       /\ created' = created + 1
       /\ Answer(i, [status |-> 200, session_id |-> created + 1,
                     seasons |-> Catalog[a].seasons])
  /\ UNCHANGED << variant, page, typeahead, errorTimers, irregular, today >>

\* a non-2xx answer to a new-game request (the only answer there is once
\* MaxSessions sessions were created, and then not counted as irregular)
createFails(i) ==
  /\ calls[i].kind = "load" /\ calls[i].resp = NoResp
  /\ created < MaxSessions => irregular < MaxIrregular
  /\ irregular' = IF created < MaxSessions THEN irregular + 1 ELSE irregular
  /\ Answer(i, [status |-> 500, detail |-> ""])
  /\ UNCHANGED << variant, page, typeahead, errorTimers, server >>

\* GuessEvaluator.evaluate, behind POST /guess
evaluate(i) ==
  LET f == calls[i]
      s == f.sid
      p == findByName(f.text)
      a == store[s].answer
      recorded == [store EXCEPT ![s].count = @ + 1]
  IN
  /\ f.kind = "guess" /\ f.resp = NoResp
  /\ IF ~Live(s)
       THEN /\ Answer(i, [status |-> 404, detail |-> SessionNotFound])
            /\ store' = store
     ELSE IF ~accepts(s)
       THEN /\ Answer(i, [status |-> 400, detail |-> GameAlreadyOver])
            /\ store' = store
     ELSE IF p = 0
       \* step 1: a miss with no signal, or UnknownPlayerError, as the server chooses
       THEN \/ /\ Answer(i, [status |-> 400, detail |-> UnknownPlayer])
               /\ store' = store
            \/ /\ Answer(i, [status |-> 200, correct |-> FALSE])
               /\ store' = recorded
     ELSE IF p = a
       THEN /\ Answer(i, [status |-> 200, correct |-> TRUE, pfr_id |-> Catalog[p].pfr_id])
            /\ store' = [recorded EXCEPT ![s].status = "won"]
     ELSE /\ Answer(i, [status |-> 200, correct |-> FALSE, pfr_id |-> Catalog[p].pfr_id,
                        feedback |-> [era |-> era(p, a),
                                      teams_overlap |-> teams_overlap(p, a)]])
          /\ store' = recorded
  /\ UNCHANGED << variant, page, typeahead, errorTimers, irregular, created, today >>

\* the reveal operation, behind POST /reveal
reveal(i) ==
  LET f == calls[i]
      s == f.sid
      told == [status |-> 200, name |-> Catalog[store[s].answer].name,
               pfr_id |-> Catalog[store[s].answer].pfr_id]
  IN
  /\ f.kind = "reveal" /\ f.resp = NoResp
  /\ IF ~Live(s)
       THEN /\ Answer(i, [status |-> 404, detail |-> SessionNotFound])
            /\ store' = store
     ELSE IF store[s].status = "in_progress"
       THEN /\ Answer(i, told)
            /\ store' = [store EXCEPT ![s].status = "lost"]
     \* on a finished session: a no-op that tells the answer, or a rejection
     ELSE \/ /\ Answer(i, told)
             /\ store' = store
          \/ /\ Answer(i, [status |-> 400, detail |-> GameAlreadyOver])
             /\ store' = store
  /\ UNCHANGED << variant, page, typeahead, errorTimers, irregular, created, today >>

\* SessionStore.expire: the session is older than the TTL
\* (the server shows whether a session is live only when it answers a request
\* that names it, so the expiry is taken when such a request is waiting)
expire(s) ==
  /\ Live(s)
  /\ \E i \in 1..Len(calls) : calls[i].sid = s /\ calls[i].resp = NoResp
  /\ store' = [store EXCEPT ![s].live = FALSE]
  /\ UNCHANGED << variant, page, typeahead, calls, errorTimers, irregular, created,
                  today >>

(* ------------------------- the page: loadGame ------------------------- *)
NoSession == 0

hidden == << variant, server, lookups >>

\* what a handler that does not touch the guess input leaves alone
quiet == << timeout, idle, suggestions >>

\* no setTimeout of the autocomplete effect is pending
NoTimer == [set |-> FALSE, q |-> << >>, elapsed |-> 0]

\* useEffect(..., [guess]): when the input has changed, the cleanup clears the
\* pending timeout; a blank input empties the suggestions, any other starts a
\* new timeout.  `cleared` says the handler itself called setSuggestions([]).
useEffect_guess(cleared) ==
  /\ timeout' = IF guess' = guess THEN timeout
                ELSE IF trim(guess') = << >> THEN NoTimer
                ELSE [set |-> TRUE, q |-> guess', elapsed |-> 0]
  /\ idle' = IF guess' = guess THEN idle ELSE 0
  /\ suggestions' = IF cleared \/ (guess' # guess /\ trim(guess') = << >>)
                      THEN << >> ELSE suggestions

\* the part of submitGuess after `await revealAnswer()` is what resumes last
EndsInTail(cont) == cont # << >> /\ cont[Len(cont)] = "submitGuessTail"

pending == << calls, irregular >>

\* the player starts a handler: it may overlap the pending ones
Starts ==
  /\ Len(calls) < MaxInFlight
  /\ calls # <<>> => irregular < MaxIrregular
  /\ irregular' = IF calls # <<>> THEN irregular + 1 ELSE irregular

\* the fetch of a handler is rejected (arrived = FALSE) or answered
Settles(arrived) ==
  /\ ~arrived => irregular < MaxIrregular
  /\ irregular' = IF arrived THEN irregular ELSE irregular + 1

\* loadGame(mode) up to its fetch; cont is what the caller does once it returns
loadGame(mode, cont, others) ==
  /\ loading' = TRUE
  /\ error' = Null
  /\ calls' = Append(others, Frame("load", mode, NoSession, <<>>, <<>>, cont))

\* the callers of loadGame resume: the session-expiry branches of submitGuess and
\* revealAnswer set the message and a timer; a revealAnswer that submitGuess
\* awaited returns into the tail of submitGuess
Resumed(cont, err, text) ==
  /\ error' = IF cont # <<>> THEN SessionExpiredMsg ELSE err
  /\ errorTimers' = IF cont # <<>> THEN Min(errorTimers + 1, MaxTimers) ELSE errorTimers
  /\ guess' = IF cont # <<>> /\ cont[Len(cont)] = "submitGuessTail" THEN <<>> ELSE text

\* setGuesses([]) ... setAnswerPfrId(null) of the success path
loadGame_resetGame_keeps_answer ==
  /\ guesses' = <<>>
  /\ gameWon' = FALSE
  /\ gameLost' = FALSE
  /\ UNCHANGED << answer, answerPfrId >>

loadGame_resetGame ==
  /\ guesses' = <<>>
  /\ gameWon' = FALSE
  /\ gameLost' = FALSE
  /\ answer' = NoName
  /\ answerPfrId' = Null

\* setShowSeasons(false); setShowTeams(false); setShowAwards(false)
loadGame_resetHints_keeps_shown == UNCHANGED << showSeasons, showTeams, showAwards >>

loadGame_resetHints ==
  /\ showSeasons' = FALSE
  /\ showTeams' = FALSE
  /\ showAwards' = FALSE

\* finally { setLoading(false) }
loadGame_finally_missing == loading' = loading

loadGame_finally == loading' = FALSE

\* loadGame after its fetch: the try body, the catch and the finally
loadGame_settle(i) ==
  LET f == calls[i] IN
  /\ f.kind = "load"
  /\ \E arrived \in BOOLEAN :
       /\ arrived => f.resp # NoResp
       /\ Settles(arrived)
       /\ IF arrived /\ f.resp.status = 200
            THEN /\ sessionId' = f.resp.session_id
                 /\ seasons' = f.resp.seasons
                 /\ gameMode' = f.mode
                 /\ loadGame_resetGame
                 /\ loadGame_resetHints
                 /\ Resumed(f.cont, error, <<>>)
            ELSE /\ Resumed(f.cont, LoadFailedMsg, guess)
                 /\ UNCHANGED << sessionId, seasons, gameMode, guesses, gameWon, gameLost,
                                 answer, answerPfrId, showSeasons, showTeams, showAwards >>
  /\ loadGame_finally
  /\ calls' = Remove(calls, i)
  /\ useEffect_guess(EndsInTail(f.cont))
  /\ UNCHANGED hidden

\* useEffect(() => { loadGame("daily") }, []) has run
Init ==
  /\ variant \in Variants
  /\ gameMode = "daily"
  /\ sessionId = NoSession
  /\ seasons = <<>>
  /\ guess = <<>>
  /\ guesses = <<>>
  /\ loading = TRUE
  /\ error = Null
  /\ gameWon = FALSE
  /\ gameLost = FALSE
  /\ answer = NoName
  /\ answerPfrId = Null
  /\ showSeasons = FALSE
  /\ showTeams = FALSE
  /\ showAwards = FALSE
  /\ calls = << Frame("load", "daily", NoSession, <<>>, <<>>, <<>>) >>
  /\ errorTimers = 0
  /\ store = <<>>
  /\ created = 0
  /\ today = 0
  /\ irregular = 0
  /\ timeout = NoTimer
  /\ idle = 0
  /\ suggestions = << >>
  /\ lookups = << >>

\* the Try Again button of the error screen
tryAgain ==
  /\ ErrorScreen
  /\ Starts
  /\ loadGame(gameMode, <<>>, calls)
  /\ UNCHANGED << gameMode, sessionId, seasons, guess, guesses, gameWon, gameLost, answer,
                  answerPfrId, showSeasons, showTeams, showAwards, errorTimers, hidden, quiet >>

\* the Daily and Unlimited buttons of the main screen
switchMode(mode) ==
  /\ MainScreen
  /\ Starts
  /\ mode # gameMode
  /\ loadGame(mode, <<>>, calls)
  /\ UNCHANGED << gameMode, sessionId, seasons, guess, guesses, gameWon, gameLost, answer,
                  answerPfrId, showSeasons, showTeams, showAwards, errorTimers, hidden, quiet >>

\* part_000: gameMode === "daily" ? loadGame("unlimited") : loadGame("unlimited");
\* page.tsx: loadQB(gameMode)
newGame_mode_current == gameMode

newGame_mode == IF variant = "part_000" THEN "unlimited" ELSE gameMode

\* the new-game button of the end card
newGame ==
  /\ EndCardShown
  /\ Starts
  /\ loadGame(newGame_mode, <<>>, calls)
  /\ UNCHANGED << gameMode, sessionId, seasons, guess, guesses, gameWon, gameLost, answer,
                  answerPfrId, showSeasons, showTeams, showAwards, errorTimers, hidden, quiet >>

(* ---------------------- the page: revealAnswer ------------------------ *)
\* what is left of submitGuess after the revealAnswer it awaited: setGuess("")
AfterReveal(cont, text) == IF cont # <<>> /\ cont[Len(cont)] = "submitGuessTail" THEN <<>> ELSE text

\* the Give Up button: revealAnswer up to its fetch
giveUp_first_session ==
  /\ GiveUpEnabled
  /\ Starts
  /\ sessionId # NoSession
  /\ calls' = Append(calls, Frame("reveal", gameMode, 1, <<>>, <<>>, <<>>))
  /\ UNCHANGED << page, errorTimers, hidden, quiet >>

giveUp ==
  /\ GiveUpEnabled
  /\ Starts
  /\ sessionId # NoSession
  /\ calls' = Append(calls, Frame("reveal", gameMode, sessionId, <<>>, <<>>, <<>>))
  /\ UNCHANGED << page, errorTimers, hidden, quiet >>

\* setAnswer(data.name); setAnswerPfrId(data.pfr_id); setGameLost(true)
revealAnswer_shows_lost_only(data) ==
  /\ gameLost' = TRUE
  /\ UNCHANGED << answer, answerPfrId >>

revealAnswer_shows(data) ==
  /\ answer' = data.name
  /\ answerPfrId' = data.pfr_id
  /\ gameLost' = TRUE

\* revealAnswer after its fetch
revealAnswer_settle(i) ==
  LET f == calls[i]
      errorMessage == IF f.resp.detail # "" THEN f.resp.detail ELSE RevealFailedMsg
  IN
  /\ f.kind = "reveal"
  /\ \E arrived \in BOOLEAN :
       /\ arrived => f.resp # NoResp
       /\ Settles(arrived)
       /\ IF arrived /\ f.resp.status = 200
            THEN /\ revealAnswer_shows(f.resp)
                 /\ guess' = AfterReveal(f.cont, guess)
                 /\ calls' = Remove(calls, i)
                 /\ useEffect_guess(EndsInTail(f.cont))
                 /\ UNCHANGED << error, loading >>
          ELSE IF arrived /\ variant = "part_000" /\ f.resp.status = 404
                  /\ errorMessage = SessionNotFound
            THEN /\ loadGame(f.mode, << "revealAnswer404" >> \o f.cont, Remove(calls, i))
                 /\ UNCHANGED << answer, answerPfrId, gameLost, guess, quiet >>
          ELSE /\ error' = IF variant = "page" THEN RevealFailedMsg
                           ELSE IF arrived THEN errorMessage ELSE FetchErrorMsg
               /\ guess' = AfterReveal(f.cont, guess)
               /\ calls' = Remove(calls, i)
               /\ useEffect_guess(EndsInTail(f.cont))
               /\ UNCHANGED << answer, answerPfrId, gameLost, loading >>
  /\ UNCHANGED << gameMode, sessionId, seasons, guesses, gameWon, showSeasons, showTeams,
                  showAwards, errorTimers, hidden >>

(* ----------------------- the page: submitGuess ------------------------ *)
submitGuess_returns_unbounded ==
  trim(guess) = <<>> \/ gameWon \/ gameLost \/ sessionId = NoSession

\* the guards of submitGuess
submitGuess_returns ==
  \/ trim(guess) = <<>> \/ gameWon \/ gameLost \/ sessionId = NoSession
  \/ Len(guesses) >= MAX_GUESSES

\* the Guess button or Enter in the input: submitGuess up to its fetch
submitGuess ==
  /\ InputEnabled
  /\ IF submitGuess_returns
       THEN UNCHANGED pending
       ELSE /\ Starts
            /\ calls' = Append(calls, Frame("guess", gameMode, sessionId, guess, guesses, <<>>))
  /\ UNCHANGED << page, errorTimers, hidden, quiet >>

\* else if (newGuesses.length >= MAX_GUESSES) await revealAnswer()
exhausted_late(newGuesses) == Len(newGuesses) > MAX_GUESSES

exhausted(newGuesses) == Len(newGuesses) >= MAX_GUESSES

\* the GuessResult built from the response
GuessResult(text, data) ==
  [name |-> text, correct |-> data.correct]
    @@ (IF "feedback" \in DOMAIN data
          THEN [era |-> data.feedback.era, teams_overlap |-> data.feedback.teams_overlap]
          ELSE << >>)
    @@ (IF "pfr_id" \in DOMAIN data THEN [pfr_id |-> data.pfr_id] ELSE << >>)

\* setError(err instanceof Error ? err.message : "Failed to submit guess"): the
\* Error thrown for a non-2xx answer, or the TypeError of a rejected fetch
caught_generic(arrived, errorMessage) == "Failed to submit guess"

caught(arrived, errorMessage) == IF arrived THEN errorMessage ELSE FetchErrorMsg

\* submitGuess after its fetch
submitGuess_settle(i) ==
  LET f == calls[i]
      errorMessage == IF f.resp.detail # "" THEN f.resp.detail ELSE GuessFailedMsg
      newGuesses == Append(f.snap, GuessResult(f.text, f.resp))
  IN
  /\ f.kind = "guess"
  /\ \E arrived \in BOOLEAN :
       /\ arrived => f.resp # NoResp
       /\ Settles(arrived)
       /\ IF arrived /\ f.resp.status = 200
            THEN /\ guesses' = newGuesses
                 /\ IF f.resp.correct
                      THEN /\ gameWon' = TRUE
                           /\ guess' = <<>>
                           /\ useEffect_guess(TRUE)
                           /\ calls' = Remove(calls, i)
                    ELSE IF exhausted(newGuesses)
                      THEN /\ calls' = Append(Remove(calls, i),
                                 Frame("reveal", f.mode, f.sid, <<>>, <<>>, << "submitGuessTail" >>))
                           /\ UNCHANGED << gameWon, guess, quiet >>
                    ELSE /\ guess' = <<>>
                         /\ useEffect_guess(TRUE)
                         /\ calls' = Remove(calls, i)
                         /\ UNCHANGED gameWon
                 /\ UNCHANGED << error, loading >>
          ELSE IF arrived /\ variant = "part_000" /\ f.resp.status = 404
                  /\ errorMessage = SessionNotFound
            THEN /\ loadGame(f.mode, << "submitGuess404" >>, Remove(calls, i))
                 /\ UNCHANGED << guesses, gameWon, guess, quiet >>
          ELSE /\ error' = caught(arrived, errorMessage)
               /\ calls' = Remove(calls, i)
               /\ UNCHANGED << guesses, gameWon, guess, loading, quiet >>
  /\ UNCHANGED << gameMode, sessionId, seasons, gameLost, answer, answerPfrId, showSeasons,
                  showTeams, showAwards, errorTimers, hidden >>

(* --------------------- the page: the other handlers ------------------- *)
\* const hintsUsed = [showSeasons, showTeams, showAwards].filter(Boolean).length
hintsUsed ==
  (IF showSeasons THEN 1 ELSE 0) + (IF showTeams THEN 1 ELSE 0) + (IF showAwards THEN 1 ELSE 0)

\* onChange={e => setGuess(e.target.value)}
setGuess(text) ==
  /\ InputEnabled
  /\ text # guess
  /\ guess' = text
  /\ useEffect_guess(FALSE)
  /\ UNCHANGED << gameMode, sessionId, seasons, guesses, loading, error, gameWon, gameLost,
                  answer, answerPfrId, showSeasons, showTeams, showAwards, pending,
                  errorTimers, hidden >>

\* the three hint buttons, each disabled once its hint is shown
Hints == << "seasons", "teams", "awards" >>

shown(hint) ==
  CASE hint = "seasons" -> showSeasons
    [] hint = "teams" -> showTeams
    [] hint = "awards" -> showAwards

showHint(hint) ==
  /\ MainScreen
  /\ ~shown(hint)
  /\ showSeasons' = (showSeasons \/ hint = "seasons")
  /\ showTeams' = (showTeams \/ hint = "teams")
  /\ showAwards' = (showAwards \/ hint = "awards")
  /\ UNCHANGED << gameMode, sessionId, seasons, guess, guesses, loading, error, gameWon,
                  gameLost, answer, answerPfrId, pending, errorTimers, hidden, quiet >>

\* the Share button of the end card; the clipboard write may be refused
\* (`copied`, which only swaps the label of the button, is not modelled)
handleShare ==
  /\ EndCardShown
  /\ \E written \in BOOLEAN :
       error' = IF written THEN error ELSE CopyFailedMsg
  /\ UNCHANGED << gameMode, sessionId, seasons, guess, guesses, loading, gameWon, gameLost,
                  answer, answerPfrId, showSeasons, showTeams, showAwards, pending,
                  errorTimers, hidden, quiet >>

\* setTimeout(() => setError(null), 3000) fires
errorTimeout ==
  /\ errorTimers > 0
  /\ errorTimers' = errorTimers - 1
  /\ error' = Null
  /\ UNCHANGED << gameMode, sessionId, seasons, guess, guesses, loading, gameWon, gameLost,
                  answer, answerPfrId, showSeasons, showTeams, showAwards, pending, hidden, quiet >>

(* ------------------------- the specification -------------------------- *)
Next ==
  \/ tryAgain
  \/ \E mode \in GameModes : switchMode(mode)
  \/ newGame
  \/ giveUp
  \/ submitGuess
  \/ \E text \in Texts : setGuess(text)
  \/ \E h \in 1..Min(NumHints, Len(Hints)) : showHint(Hints[h])
  \/ handleShare
  \/ errorTimeout
  \/ \E i \in 1..Len(calls) : loadGame_settle(i)
  \/ \E i \in 1..Len(calls) : revealAnswer_settle(i)
  \/ \E i \in 1..Len(calls) : submitGuess_settle(i)
  \/ \E i \in 1..Len(calls) : create(i)
  \/ \E i \in 1..Len(calls) : createFails(i)
  \/ \E i \in 1..Len(calls) : evaluate(i)
  \/ \E i \in 1..Len(calls) : reveal(i)
  \/ \E s \in 1..created : expire(s)

Spec == Init /\ [][Next]_vars

(* ------------- one guess a game, for every pair of players ----------- *)
\* the names the player types in this scenario: every player of the catalog
EvaluatedTexts == { <<"a">>, <<"b">>, <<"c">>, <<"d">> }

NextEvaluate ==
  \/ \E mode \in GameModes : switchMode(mode)
  \/ \E text \in EvaluatedTexts : setGuess(text)
  \/ guesses = << >> /\ submitGuess
  \/ \E i \in 1..Len(calls) : loadGame_settle(i)
  \/ \E i \in 1..Len(calls) : submitGuess_settle(i)
  \/ \E i \in 1..Len(calls) : create(i)
  \/ \E i \in 1..Len(calls) : evaluate(i)

SpecEvaluate == Init /\ [][NextEvaluate]_vars

(* --------------------- all three hints, short games ------------------- *)
NextHints ==
  \/ \E mode \in GameModes : switchMode(mode)
  \/ newGame
  \/ giveUp
  \/ \E text \in Texts : setGuess(text)
  \/ guesses = << >> /\ submitGuess
  \/ \E h \in 1..Len(Hints) : showHint(Hints[h])
  \/ \E i \in 1..Len(calls) : loadGame_settle(i)
  \/ \E i \in 1..Len(calls) : revealAnswer_settle(i)
  \/ \E i \in 1..Len(calls) : submitGuess_settle(i)
  \/ \E i \in 1..Len(calls) : create(i)
  \/ \E i \in 1..Len(calls) : evaluate(i)
  \/ \E i \in 1..Len(calls) : reveal(i)

SpecHints == Init /\ [][NextHints]_vars

(* ------------------- daily games over dates and restarts -------------- *)
\* the UTC date changes
midnight ==
  /\ today < MaxDays
  /\ today' = today + 1
  /\ UNCHANGED << variant, page, calls, errorTimers, irregular, typeahead, store, created >>

\* the server process restarts: the sessions are gone, the catalog is read again
restart ==
  /\ \E s \in 1..created : store[s].live
  /\ store' = [s \in 1..created |-> [store[s] EXCEPT !.live = FALSE]]
  /\ UNCHANGED << variant, page, calls, errorTimers, irregular, typeahead, created, today >>

NextDaily ==
  \/ tryAgain
  \/ \E mode \in GameModes : switchMode(mode)
  \/ submitGuess
  \/ \E text \in Texts : setGuess(text)
  \/ midnight
  \/ restart
  \/ \E i \in 1..Len(calls) : loadGame_settle(i)
  \/ \E i \in 1..Len(calls) : submitGuess_settle(i)
  \/ \E i \in 1..Len(calls) : create(i)
  \/ \E i \in 1..Len(calls) : evaluate(i)

SpecDaily == Init /\ [][NextDaily]_vars

(* --------------------------- autocomplete ----------------------------- *)
\* the delay of the setTimeout in the autocomplete effect
debounce_one_tick == Tick

debounce == IF variant = "part_000" THEN 200 ELSE 250

\* AutocompleteIndex.suggest: the names that start with the prefix, compared
\* case-insensitively, in catalog (alphabetical) order, at most `limit` of them
suggest(prefix, limit) ==
  LET names == [p \in Players |-> Catalog[p].name]
      Matches(name) ==
        /\ Len(prefix) <= Len(name)
        /\ ToLower(SubSeq(name, 1, Len(prefix))) = ToLower(prefix)
      found == SelectSeq(names, Matches)
  IN SubSeq(found, 1, Min(limit, Len(found)))

\* time passes; a timeout that is due fires before more time passes
tick ==
  /\ idle < MaxIdle
  /\ timeout.set => timeout.elapsed < debounce
  /\ idle' = Min(idle + Tick, MaxIdle)
  /\ timeout' = IF timeout.set THEN [timeout EXCEPT !.elapsed = @ + Tick] ELSE timeout
  /\ UNCHANGED << variant, page, calls, errorTimers, irregular, suggestions, lookups, server >>

\* the callback of the setTimeout: fetch(`/autocomplete?q=${guess}`) with the
\* guess of the render that set the timeout
timeoutFires ==
  /\ timeout.set
  /\ timeout.elapsed >= debounce
  /\ Len(lookups) < MaxLookups
  /\ lookups' = Append(lookups, [q |-> timeout.q, resp |-> NoResp])
  /\ timeout' = NoTimer
  /\ UNCHANGED << variant, page, calls, errorTimers, irregular, idle, suggestions, server >>

\* GET /autocomplete is answered: the players, or a failure
autocomplete(i) ==
  /\ lookups[i].resp = NoResp
  /\ \E ok \in BOOLEAN :
       lookups' = [lookups EXCEPT ![i].resp =
                     IF ok THEN [status |-> 200, players |-> suggest(lookups[i].q, 10)]
                     ELSE [status |-> 500]]
  /\ UNCHANGED << variant, page, calls, errorTimers, irregular, timeout, idle, suggestions,
                  server >>

\* the callback after its fetch: setSuggestions(data.players || []), or
\* setSuggestions([]) in the catch
timeoutFires_settle(i) ==
  /\ lookups[i].resp # NoResp
  /\ suggestions' = IF lookups[i].resp.status = 200 THEN lookups[i].resp.players ELSE << >>
  /\ lookups' = Remove(lookups, i)
  /\ UNCHANGED << variant, page, calls, errorTimers, irregular, timeout, idle, server >>

\* a name of the dropdown is chosen (mouse, or Enter on the selected row):
\* setGuess(name), setSuggestions([])
pickSuggestion(k) ==
  /\ MainScreen
  /\ k \in 1..Len(suggestions)
  /\ guess' = suggestions[k]
  /\ useEffect_guess(TRUE)
  /\ UNCHANGED << gameMode, sessionId, seasons, guesses, loading, error, gameWon, gameLost,
                  answer, answerPfrId, showSeasons, showTeams, showAwards, pending,
                  errorTimers, hidden >>

\* what the player types in this scenario: two names, a blank, nothing
TypedTexts == { << >>, <<"b">>, <<"A">>, <<" ">> }

NextAutocomplete ==
  \/ \E text \in TypedTexts : setGuess(text)
  \/ tick
  \/ timeoutFires
  \/ \E k \in 1..Len(suggestions) : pickSuggestion(k)
  \* one guess is submitted in this scenario
  \/ guesses = << >> /\ calls = << >> /\ submitGuess
  \/ \E i \in 1..Len(lookups) : autocomplete(i)
  \/ \E i \in 1..Len(lookups) : timeoutFires_settle(i)
  \/ \E i \in 1..Len(calls) : loadGame_settle(i)
  \/ \E i \in 1..Len(calls) : submitGuess_settle(i)
  \/ \E i \in 1..Len(calls) : create(i)
  \/ \E i \in 1..Len(calls) : evaluate(i)

SpecAutocomplete == Init /\ [][NextAutocomplete]_vars

(* -------- two guesses in one game: a wrong name and the right one ----- *)
\* the names the player types in this scenario
RaceTexts == { <<"b">>, <<"A">> }

NextRace ==
  \/ \E text \in RaceTexts : setGuess(text)
  \/ submitGuess
  \/ \E i \in 1..Len(calls) : loadGame_settle(i)
  \/ \E i \in 1..Len(calls) : submitGuess_settle(i)
  \/ \E i \in 1..Len(calls) : revealAnswer_settle(i)
  \/ \E i \in 1..Len(calls) : create(i)
  \/ \E i \in 1..Len(calls) : evaluate(i)
  \/ \E i \in 1..Len(calls) : reveal(i)

SpecRace == Init /\ [][NextRace]_vars

(* ------------------- rendering the recorded guesses ------------------- *)
\* an optional field of a GuessResult is present
Has(g, field) == field \in DOMAIN g

\* handleShare: the emoji of one guess
guessEmojis_era_first(g) ==
  IF g.correct THEN "green circle"
  ELSE IF Has(g, "era") /\ g.era = "same" THEN "yellow circle"
  ELSE IF Has(g, "teams_overlap") /\ g.teams_overlap THEN "orange circle"
  ELSE "black circle"

guessEmojis(g) ==
  IF g.correct THEN "green circle"
  ELSE IF Has(g, "teams_overlap") /\ g.teams_overlap THEN "orange circle"
  ELSE IF Has(g, "era") /\ g.era = "same" THEN "yellow circle"
  ELSE "black circle"

\* the progress dots: the class of dot i of the MAX_GUESSES dots
progressDot(i) ==
  IF i > Len(guesses) THEN "bg-[#2a3046]"
  ELSE IF guesses[i].correct THEN "bg-[#22c55e]"
  ELSE IF Has(guesses[i], "teams_overlap") /\ guesses[i].teams_overlap THEN "bg-[#f59e0b]"
  ELSE IF Has(guesses[i], "era") /\ guesses[i].era = "same" THEN "bg-[#eab308]"
  ELSE "bg-[#374151]"

\* the guesses list: the class of one row
guessRow(g) ==
  IF g.correct THEN "from-[#22c55e] to-[#16a34a]"
  ELSE IF Has(g, "teams_overlap") /\ g.teams_overlap THEN "from-[#f59e0b] to-[#d97706]"
  ELSE IF Has(g, "era") /\ g.era = "same" THEN "from-[#eab308] to-[#ca8a04]"
  ELSE "bg-[#374151]"

\* every GuessResult the interface allows for one name: correct, and each of
\* era and teams_overlap present with either value or absent
GuessResults ==
  { [name |-> <<"b">>, correct |-> c] @@ e @@ t :
      c \in BOOLEAN,
      e \in { << >> } \cup { [era |-> x] : x \in {"same", "far"} },
      t \in { << >> } \cup { [teams_overlap |-> x] : x \in BOOLEAN } }

\* the lists of up to MaxRendered guesses of a game: only the last one may be
\* correct
RenderedLists ==
  { l \in UNION { [1..n -> GuessResults] : n \in 0..MaxRendered } :
      \A k \in 1..Len(l) - 1 : ~l[k].correct }

\* a daily game of part_000 with some guesses recorded and no request pending
InitRender ==
  /\ variant = "part_000"
  /\ gameMode = "daily"
  /\ sessionId = 1
  /\ seasons = Catalog[pickForDate(0, Pool)].seasons
  /\ guess = <<>>
  /\ guesses \in RenderedLists
  /\ loading = FALSE
  /\ error = Null
  /\ gameWon = (guesses # <<>> /\ guesses[Len(guesses)].correct)
  /\ gameLost = FALSE
  /\ answer = NoName
  /\ answerPfrId = Null
  /\ showSeasons = FALSE
  /\ showTeams = FALSE
  /\ showAwards = FALSE
  /\ calls = <<>>
  /\ errorTimers = 0
  /\ irregular = 0
  /\ store = << [answer |-> pickForDate(0, Pool), mode |-> "daily", date |-> 0,
                 count |-> Len(guesses),
                 status |-> IF gameWon THEN "won" ELSE "in_progress", live |-> TRUE] >>
  /\ created = 1
  /\ today = 0
  /\ timeout = NoTimer
  /\ idle = 0
  /\ suggestions = << >>
  /\ lookups = << >>

\* the handlers that re-render the page without a request
NextRender ==
  \/ \E text \in Texts : setGuess(text)
  \/ \E h \in 1..Min(NumHints, Len(Hints)) : showHint(Hints[h])
  \/ handleShare

SpecRender == InitRender /\ [][NextRender]_vars

(* ============================== claims ================================ *)

\* C1: in every reachable state the guesses list holds at most MAX_GUESSES (8)
\* entries, whatever the order of submitGuess calls, /guess answers, reveals
\* and game loads.
C1_AtMostMaxGuesses == Len(guesses) <= 8

\* C1, witness: the list is full
C1_ListFull == Len(guesses) = 8

\* A step is a successful game load exactly when it changes sessionId: only the
\* try body of loadGame sets it, to an identifier the server never gave before.
GameLoaded == sessionId' # sessionId

\* C2: once the game is won or lost the guesses list is neither extended nor
\* replaced until the next successful game load, also by the answer to a /guess
\* request that was sent before the game ended.
C2_NoGuessOnceTerminal ==
  [][(gameWon \/ gameLost) /\ ~GameLoaded => guesses' = guesses]_vars

\* C3: gameWon and gameLost are never both true, and neither a won game becomes
\* lost nor a lost game won before the next successful game load.
C3_WonLostExclusive ==
  [][/\ ~(gameWon' /\ gameLost')
     /\ gameWon /\ ~GameLoaded => ~gameLost'
     /\ gameLost /\ ~GameLoaded => ~gameWon']_vars

\* the /reveal requests among the pending handlers
Reveals(c) == Cardinality({j \in 1..Len(c) : c[j].kind = "reveal"})

\* the answer to the /guess request of frame i has arrived with correct = true
\* and the handler resumes in this step
CorrectArrives(i) ==
  /\ calls[i].kind = "guess"
  /\ calls[i].resp.status = 200
  /\ calls[i].resp.correct
  /\ irregular' = irregular
  /\ submitGuess_settle(i)

\* C4: when a /guess response has correct = true the page appends that guess to
\* the guesses list, sets gameWon, sends no /reveal request, and from then on
\* records no further guess in that game (the list stays as it is until the
\* next successful game load).
C4_CorrectGuessWins ==
  [][/\ \A i \in 1..Len(calls) :
          CorrectArrives(i) =>
            /\ guesses' = Append(guesses, GuessResult(calls[i].text, calls[i].resp))
            /\ gameWon'
            /\ Reveals(calls') <= Reveals(calls)
     /\ gameWon /\ ~GameLoaded => guesses' = guesses]_vars

\* the answer to the /guess request of frame i has arrived with correct = false
\* and the handler records it as the 8th entry in this step
EighthMiss(i) ==
  /\ calls[i].kind = "guess"
  /\ calls[i].resp.status = 200
  /\ ~calls[i].resp.correct
  /\ irregular' = irregular
  /\ submitGuess_settle(i)
  /\ Len(guesses') = 8

\* the answer to the /reveal request of frame i has arrived with the name and
\* the handler resumes in this step
RevealArrives(i) ==
  /\ calls[i].kind = "reveal"
  /\ calls[i].resp.status = 200
  /\ irregular' = irregular
  /\ revealAnswer_settle(i)

\* C5: when an incorrect guess is recorded as the 8th entry of the guesses
\* list, the page sends a /reveal request for the session of that guess; when
\* a /reveal request succeeds, gameLost becomes true and answer is the name
\* the server returned, so the game is not in progress after it.
C5_EighthMissReveals ==
  [][\A i \in 1..Len(calls) :
       /\ EighthMiss(i) =>
            \E j \in 1..Len(calls') :
              /\ calls'[j].kind = "reveal"
              /\ calls'[j].sid = calls[i].sid
              /\ calls'[j].resp = NoResp
              /\ Reveals(calls') = Reveals(calls) + 1
       /\ RevealArrives(i) =>
            /\ gameLost'
            /\ answer' = calls[i].resp.name
            /\ answer' # NoName]_vars

\* C5, witness: eight misses are recorded and the reveal sent after the 8th
\* has set gameLost and the answer
C5_LostAfterEight ==
  /\ Len(guesses) = 8
  /\ \A k \in 1..8 : ~guesses[k].correct
  /\ gameLost /\ ~gameWon
  /\ answer = Catalog[store[sessionId].answer].name
  /\ Reveals(calls) = 0

\* C6: a submitGuess call made when the guess text is blank, when there is no
\* session, when the game is won or lost, or when 8 guesses are recorded sends
\* no /guess request and leaves guesses, gameWon, gameLost, answer, error,
\* sessionId and the input text as they are.
C6_RejectedCallChangesNothing ==
  [][(/\ submitGuess
      /\ \/ trim(guess) = <<>>
         \/ sessionId = NoSession
         \/ gameWon \/ gameLost
         \/ Len(guesses) >= 8)
       => /\ calls' = calls
          /\ UNCHANGED << guesses, gameWon, gameLost, answer, error, sessionId, guess >>]_vars

\* C6, witness: the input is enabled with a name typed, a session, a game
\* neither won nor lost, and 8 guesses recorded: a call to submitGuess here is
\* rejected by the length guard alone
C6_OnlyLengthGuardRejects ==
  /\ InputEnabled
  /\ trim(guess) # <<>>
  /\ sessionId # NoSession
  /\ ~gameWon /\ ~gameLost
  /\ Len(guesses) >= 8
  /\ submitGuess_returns

\* the server accepts the guess of frame i in this step and answers correct = true
Wins(i) ==
  /\ evaluate(i)
  /\ calls'[i].resp.status = 200
  /\ calls'[i].resp.correct

\* C7: guesses submitted concurrently against one session never both win (a
\* correct answer is given only by a session in progress, which it leaves won,
\* and a won session stays won), and the guesses accepted for a session never
\* number more than 8.
C7_ConcurrentGuesses ==
  [][/\ \A s \in 1..created' : store'[s].count <= 8
     /\ \A i \in 1..Len(calls) :
          Wins(i) => /\ store[calls[i].sid].status = "in_progress"
                     /\ store'[calls[i].sid].status = "won"
     /\ \A s \in 1..created : store[s].status = "won" => store'[s].status = "won"]_vars

\* C7, witness: two guesses were pending against one session; the server
\* answered one with correct = true and refused the other
C7_OneWinsOneRefused ==
  \E i, j \in 1..Len(calls) :
    /\ i # j
    /\ calls[i].kind = "guess" /\ calls[j].kind = "guess"
    /\ calls[i].sid = calls[j].sid
    /\ calls[i].resp.status = 200 /\ calls[i].resp.correct
    /\ calls[j].resp.status = 400 /\ calls[j].resp.detail = GameAlreadyOver
    /\ store[calls[i].sid].status = "won"

\* the answer 404 "Session not found" to the /guess or /reveal request of
\* frame i has arrived and the handler resumes in this step
SessionExpired(i) ==
  /\ calls[i].kind \in {"guess", "reveal"}
  /\ calls[i].resp.status = 404
  /\ calls[i].resp.detail = SessionNotFound
  /\ irregular' = irregular
  /\ submitGuess_settle(i) \/ revealAnswer_settle(i)

\* the game load that a session-expiry branch started succeeds in this step
Recreated(i) ==
  /\ calls[i].kind = "load"
  /\ calls[i].cont # <<>>
  /\ calls[i].resp.status = 200
  /\ irregular' = irregular
  /\ loadGame_settle(i)

\* C8: when a /guess or /reveal request is answered 404 "Session not found"
\* the page does not record the guess and requests a new game in the current
\* mode; when that load succeeds the page holds a new sessionId, an empty
\* guesses list, gameWon = gameLost = false, no answer and all hints hidden.
C8_SessionRecreated ==
  [][\A i \in 1..Len(calls) :
       /\ SessionExpired(i) =>
            /\ guesses' = guesses
            /\ \E j \in 1..Len(calls') :
                 /\ calls'[j].kind = "load"
                 /\ calls'[j].mode = gameMode
                 /\ calls'[j].resp = NoResp
                 /\ calls'[j].cont # <<>>
       /\ Recreated(i) =>
            /\ sessionId' = calls[i].resp.session_id
            /\ sessionId' # sessionId
            /\ guesses' = <<>>
            /\ ~gameWon' /\ ~gameLost'
            /\ answer' = NoName
            /\ ~showSeasons' /\ ~showTeams' /\ ~showAwards']_vars

\* C9: whenever no request is in flight the page shows a control that starts
\* one: Try Again on the error screen, a mode button, Give Up or Guess on the
\* main screen, or the new-game button of the end card.
C9_NeverStuck ==
  calls = <<>> =>
    ENABLED (\/ tryAgain
             \/ \E mode \in GameModes : switchMode(mode)
             \/ giveUp
             \/ newGame
             \/ submitGuess /\ ~submitGuess_returns)

\* C9, witness: a game load has failed, no request is in flight, and the error
\* screen offers Try Again
C9_TryAgainAfterFailure ==
  /\ calls = <<>>
  /\ error = LoadFailedMsg
  /\ ErrorScreen
  /\ ENABLED tryAgain

\* the one colour the priority order correct > teams_overlap > era = "same" >
\* no-match gives a guess; an absent field counts as no signal
Priority(g) ==
  IF g.correct THEN "correct"
  ELSE IF Has(g, "teams_overlap") /\ g.teams_overlap = TRUE THEN "teams_overlap"
  ELSE IF Has(g, "era") /\ g.era = "same" THEN "era"
  ELSE "no-match"

\* the green, orange, yellow and grey of the three places
Palette ==
  [row |-> [correct |-> "from-[#22c55e] to-[#16a34a]", teams_overlap |-> "from-[#f59e0b] to-[#d97706]",
            era |-> "from-[#eab308] to-[#ca8a04]", no_match |-> "bg-[#374151]"],
   dot |-> [correct |-> "bg-[#22c55e]", teams_overlap |-> "bg-[#f59e0b]",
            era |-> "bg-[#eab308]", no_match |-> "bg-[#374151]"],
   emoji |-> [correct |-> "green circle", teams_overlap |-> "orange circle",
              era |-> "yellow circle", no_match |-> "black circle"]]

Paint(place, g) ==
  CASE Priority(g) = "correct" -> Palette[place].correct
    [] Priority(g) = "teams_overlap" -> Palette[place].teams_overlap
    [] Priority(g) = "era" -> Palette[place].era
    [] OTHER -> Palette[place].no_match

\* C10: every recorded guess is rendered with the one colour the priority
\* order correct > teams_overlap > era = "same" > no-match gives it, with an
\* absent feedback field counting as no signal, and the guesses list, the
\* progress dots and the share emojis all give it that colour.
C10_OneColourByPriority ==
  \A k \in 1..Len(guesses) :
    /\ guessRow(guesses[k]) = Paint("row", guesses[k])
    /\ progressDot(k) = Paint("dot", guesses[k])
    /\ guessEmojis(guesses[k]) = Paint("emoji", guesses[k])

\* C10, witness: the end card of a won game is shown; the first guess has both
\* signals (teams_overlap and era = "same"), so the order decides its colour,
\* and the winning guess carries no feedback field
C10_OrderDecides ==
  /\ EndCardShown
  /\ Len(guesses) = 2
  /\ ~guesses[1].correct
  /\ Has(guesses[1], "teams_overlap") /\ guesses[1].teams_overlap
  /\ Has(guesses[1], "era") /\ guesses[1].era = "same"
  /\ guesses[2].correct
  /\ ~Has(guesses[2], "era") /\ ~Has(guesses[2], "teams_overlap")
  /\ showSeasons

\* an /autocomplete request is sent in this step
LookupSent == Len(lookups') > Len(lookups)

\* C11: an /autocomplete request for the text q is sent only when the guess
\* input is q, is not blank and has not changed for at least 200 ms; every
\* change of the input leaves no timeout pending but the one just set for the
\* new text; and while the input is blank no timeout is pending.
C11_AutocompleteDebounced ==
  [][/\ LookupSent =>
          /\ lookups'[Len(lookups')].q = guess
          /\ trim(guess) # << >>
          /\ idle >= 200
     /\ guess' # guess =>
          /\ idle' = 0
          /\ ~LookupSent
          /\ timeout'.set => timeout'.q = guess' /\ timeout'.elapsed = 0
     /\ trim(guess') = << >> => ~timeout'.set]_vars

\* C11, witness: the input has been "A" for the whole delay, the timeout has
\* fired and the one request in flight is the one for "A"
C11_SecondTextLookedUp ==
  /\ guess = <<"A">>
  /\ idle >= 200
  /\ ~timeout.set
  /\ Len(lookups) = 1
  /\ lookups[1].q = <<"A">>
  /\ suggestions = << >>

\* C12: any two sessions created through /daily_qb on the same UTC date have
\* the same answer, however many sessions were created, in whatever order the
\* requests were answered, and whether or not the server restarted in between.
C12_DailyDeterministic ==
  \A s, t \in 1..created :
    (store[s].mode = "daily" /\ store[t].mode = "daily" /\ store[s].date = store[t].date)
      => store[s].answer = store[t].answer

\* C12, witness: two daily sessions of one date, created before and after a
\* restart of the server
C12_SameDateAcrossRestart ==
  /\ created = 2
  /\ store[1].mode = "daily" /\ store[2].mode = "daily"
  /\ store[1].date = store[2].date
  /\ ~store[1].live /\ store[2].live
  /\ sessionId = 2

\* a handler has started a fetch in this step: its frame is the last of calls'
Fetches ==
  /\ calls' # << >>
  /\ calls'[Len(calls')].resp = NoResp
  /\ \/ Len(calls') > Len(calls)
     \/ Len(calls') = Len(calls) /\ calls'[Len(calls')] # calls[Len(calls)]

\* a game load succeeds in this step
LoadSucceeds ==
  \E i \in 1..Len(calls) :
    /\ calls[i].kind = "load"
    /\ calls[i].resp.status = 200
    /\ irregular' = irregular
    /\ loadGame_settle(i)
    /\ sessionId' = calls[i].resp.session_id
    /\ seasons' = calls[i].resp.seasons

\* C13: sessionId and the displayed seasons change only in a successful game
\* load, which sets both from one response, so the seasons shown are always
\* those of the held session's answer; and a /guess or /reveal request carries
\* the sessionId held when the player pressed Guess or Give Up (the /reveal
\* sent after the 8th miss carries the sessionId of that guess).
C13_SessionFixed ==
  [][/\ (sessionId' # sessionId \/ seasons' # seasons) => LoadSucceeds
     /\ sessionId' # NoSession => seasons' = Catalog[store'[sessionId'].answer].seasons
     /\ (Fetches /\ calls'[Len(calls')].kind \in {"guess", "reveal"}) =>
          \/ /\ Len(calls') > Len(calls)
             /\ calls'[Len(calls')].sid = sessionId
          \/ /\ Len(calls') = Len(calls)
             /\ \E i \in 1..Len(calls) :
                  /\ EighthMiss(i)
                  /\ calls'[Len(calls')].kind = "reveal"
                  /\ calls'[Len(calls')].sid = calls[i].sid]_vars

\* C13, witness: in the second game of the run a /guess and a /reveal request
\* are pending, both for the second session
C13_RequestsOfSecondGame ==
  /\ sessionId = 2
  /\ Len(calls) = 2
  /\ calls[1].kind = "reveal" /\ calls[1].sid = 2
  /\ calls[2].kind = "guess" /\ calls[2].sid = 2
  /\ seasons = Catalog[store[2].answer].seasons

\* the years in which the seasons of player p were played, and the teams
SeasonYears(p) == { Catalog[p].seasons[k].season : k \in 1..Len(Catalog[p].seasons) }

SeasonTeams(p) == { Catalog[p].seasons[k].team : k \in 1..Len(Catalog[p].seasons) }

\* the career start years of p and a differ by at most n
StartsWithin(p, a, n) ==
  \E y \in SeasonYears(p), z \in SeasonYears(a) :
    /\ \A w \in SeasonYears(p) : y <= w
    /\ \A w \in SeasonYears(a) : z <= w
    /\ y - z <= n /\ z - y <= n

GuessFails(i) ==
  /\ calls[i].kind = "guess"
  /\ submitGuess_settle(i)
  /\ \/ irregular' # irregular
     \/ /\ irregular' = irregular
        /\ calls[i].resp.status # 200
        /\ ~(calls[i].resp.status = 404 /\ calls[i].resp.detail = SessionNotFound)

\* C15: when a /guess request fails, by a network error or a non-2xx answer
\* other than the session-expiry 404, guesses, gameWon, gameLost, answer and
\* sessionId keep their values and nothing changes but error, which becomes
\* the detail of the response, or "Guess failed" when there is none.
C15_FailedGuessAtomic ==
  [][\A i \in 1..Len(calls) :
       GuessFails(i) =>
         /\ UNCHANGED << guesses, gameWon, gameLost, answer, sessionId >>
         /\ UNCHANGED << gameMode, seasons, guess, loading, answerPfrId, showSeasons,
                         showTeams, showAwards, suggestions >>
         /\ error' = IF irregular' = irregular /\ calls[i].resp.detail # ""
                        THEN calls[i].resp.detail
                        ELSE GuessFailedMsg]_vars

\* C15, amended: as C15, except that after a network error error is the message
\* of the error the fetch threw, not "Guess failed".
C15_FailedGuessAtomic_amended ==
  [][\A i \in 1..Len(calls) :
       GuessFails(i) =>
         /\ UNCHANGED << guesses, gameWon, gameLost, answer, sessionId >>
         /\ UNCHANGED << gameMode, seasons, guess, loading, answerPfrId, showSeasons,
                         showTeams, showAwards, suggestions >>
         /\ error' = IF irregular' # irregular THEN FetchErrorMsg
                      ELSE IF calls[i].resp.detail # "" THEN calls[i].resp.detail
                      ELSE GuessFailedMsg]_vars

\* C15, witness: of two guesses sent together one has won and the other was
\* refused by the server: the list holds the winning guess, error the detail
C15_RefusedGuessKeepsList ==
  /\ calls = << >>
  /\ error = GameAlreadyOver
  /\ gameWon /\ ~gameLost
  /\ Len(guesses) = 1 /\ guesses[1].correct

\* part_000 shows a game in progress
InProgressShown ==
  /\ variant = "part_000"
  /\ MainScreen
  /\ sessionId # NoSession
  /\ ~gameWon /\ ~gameLost

\* C16: while part_000 shows a game in progress, with any number of recorded
\* guesses, Give Up is available; a successful reveal leaves the game lost and
\* not won, with the answer of the displayed game shown and the guesses list
\* as it was; once the game is won or lost Give Up is not available.
C16_GiveUp ==
  [][/\ InProgressShown => GiveUpEnabled
     /\ (gameWon \/ gameLost) => ~GiveUpEnabled /\ ~giveUp
     /\ \A i \in 1..Len(calls) :
          RevealArrives(i) =>
            /\ gameLost' /\ ~gameWon'
            /\ answer' = Catalog[store[sessionId].answer].name
            /\ guesses' = guesses]_vars

\* C17: loadGame(mode) requests /daily_qb exactly when mode is daily and
\* /random_qb when it is unlimited; gameMode changes only when a load succeeds,
\* and then to the mode of that load; so gameMode is always the mode under
\* which the held session was created, also when two loads overlap.
C17_ModeOfSession ==
  [][/\ \A i \in 1..Len(calls') :
          calls'[i].kind = "load" =>
            (endpoint(calls'[i].mode) = "/daily_qb") = (calls'[i].mode = "daily")
     /\ gameMode' # gameMode =>
          \E i \in 1..Len(calls) :
            /\ calls[i].kind = "load" /\ calls[i].resp.status = 200
            /\ irregular' = irregular
            /\ loadGame_settle(i)
            /\ gameMode' = calls[i].mode
     /\ sessionId' # NoSession => store'[sessionId'].mode = gameMode']_vars

\* C17, witness: a session-expiry reload (daily) and a mode switch (unlimited)
\* overlapped; the unlimited load has succeeded and the page holds the new
\* unlimited session in unlimited mode while the daily reload is still pending
C17_OverlappingLoads ==
  /\ Len(calls) = 1
  /\ calls[1].kind = "load" /\ calls[1].mode = "daily" /\ calls[1].cont # << >>
  /\ sessionId = 2 /\ store[2].mode = "unlimited" /\ gameMode = "unlimited"
  /\ store[1].mode = "daily"

\* the page shows a fresh game in progress, apart from the error cell
FreshGame ==
  /\ guesses = << >>
  /\ ~gameWon /\ ~gameLost
  /\ answer = NoName /\ answerPfrId = Null
  /\ guess = << >>
  /\ ~showSeasons /\ ~showTeams /\ ~showAwards

\* the load of frame i succeeds in this step
LoadSucceedsAt(i) ==
  /\ calls[i].kind = "load"
  /\ calls[i].resp.status = 200
  /\ irregular' = irregular
  /\ loadGame_settle(i)
  /\ sessionId' = calls[i].resp.session_id

\* C18: after every successful game load the client is in a fresh game in
\* progress: guesses is empty, gameWon and gameLost are false, answer and
\* answerPfrId are null, the guess input is empty, the three hints are hidden
\* and error is null, whatever the state before the load.
C18_FreshAfterLoad ==
  [][\A i \in 1..Len(calls) :
       LoadSucceedsAt(i) => FreshGame' /\ error' = Null]_vars

\* C18, amended: as C18 for everything but error.  The success path does not
\* touch error: it is what it was (null since loadGame started, unless a handler
\* that overlapped the load has failed meanwhile), except after a
\* session-expiry reload, whose caller then shows the session-expired notice.
C18_FreshAfterLoad_amended ==
  [][\A i \in 1..Len(calls) :
       LoadSucceedsAt(i) =>
         /\ FreshGame'
         /\ error' = IF calls[i].cont # << >> THEN SessionExpiredMsg ELSE error]_vars

\* C18, witness: the second game of the run has loaded after a finished first
\* game with a guess in the list and a hint shown, and nothing of it is left
C18_SecondGameFresh ==
  /\ sessionId = 2 /\ store[1].count > 0 /\ store[1].status # "in_progress"
  /\ FreshGame /\ error = Null /\ ~loading /\ calls = << >>

\* the hints that are shown
ShownHints == { h \in 1..Len(Hints) : shown(Hints[h]) }

\* C19: the hint flags are kept by the client alone (showing a hint sends no
\* request and changes nothing on the server) and are monotone within a game:
\* a shown hint stays shown until the next successful game load, which hides
\* all three; hintsUsed is the number of shown hints, in 0..3; a guess or a
\* reveal never changes a hint flag (a flag changes only by a hint button or a
\* successful load).
C19_HintsMonotone ==
  [][/\ (\E h \in ShownHints : ~shown(Hints[h])') =>
          \E i \in 1..Len(calls) : LoadSucceedsAt(i)
     /\ (\E i \in 1..Len(calls) : LoadSucceedsAt(i)) => ShownHints' = {}
     /\ hintsUsed' = Cardinality(ShownHints') /\ hintsUsed' \in 0..3
     /\ ShownHints' # ShownHints =>
          \/ \E i \in 1..Len(calls) : LoadSucceedsAt(i)
          \/ /\ \E h \in 1..Len(Hints) : showHint(Hints[h])
             /\ calls' = calls /\ server' = server]_vars

\* C19, witness: in the second game of the run, after a first game with hints
\* shown, a guess and a reveal, all three hints are shown again and the game
\* is lost with a guess in the list
C19_AllHintsSecondGame ==
  /\ sessionId = 2 /\ store[1].count > 0 /\ store[1].status = "lost"
  /\ hintsUsed = 3
  /\ guesses # << >> /\ gameLost

\* a /daily_qb or /random_qb request has not settled yet
LoadInFlight == \E i \in 1..Len(calls) : calls[i].kind = "load"

\* C20: every loadGame whose request settles (2xx, non-2xx or network error)
\* ends with loading = false, and loading is true for as long as any load
\* request is in flight, also when a session-expiry reload overlaps a mode
\* switch.
C20_LoadingWhileInFlight ==
  [][/\ (\E i \in 1..Len(calls) : loadGame_settle(i)) => ~loading'
     /\ LoadInFlight' => loading']_vars

\* the server rejects the /guess request of frame i with a non-2xx answer that
\* is not the session-expiry 404, and the handler resumes in this step
GuessRejected(i) == GuessFails(i) /\ irregular' = irregular

\* C21: after a /guess request is rejected with a non-2xx answer that is not
\* the session-expiry 404, the player can continue the same game: the session,
\* the guesses and the hints are kept, and unless the game is over or a load is
\* pending the guess input of that game is usable again.
C21_RejectedGuessContinues ==
  [][\A i \in 1..Len(calls) :
       GuessRejected(i) =>
         /\ UNCHANGED << sessionId, guesses, showSeasons, showTeams, showAwards >>
         /\ (~loading' /\ ~gameWon' /\ ~gameLost') => InputEnabled']_vars

\* the handler of frame i resumes in this step with the server's answer to a
\* /guess or /reveal request that was sent for a session the page no longer holds
LateResponse(i) ==
  /\ calls[i].kind \in {"guess", "reveal"}
  /\ calls[i].sid # sessionId
  /\ irregular' = irregular
  /\ submitGuess_settle(i) \/ revealAnswer_settle(i)

\* C22: a response to a /guess or /reveal request of an earlier session never
\* modifies the game of the current session: it does not add to guesses, set
\* gameWon, set gameLost or set answer.
C22_LateResponseIgnored ==
  [][\A i \in 1..Len(calls) :
       LateResponse(i) => UNCHANGED << guesses, gameWon, gameLost, answer >>]_vars

\* the 2xx answer to a /guess request of the held session is received in this step
GuessArrives(i) ==
  /\ calls[i].kind = "guess"
  /\ calls[i].sid = sessionId
  /\ calls[i].resp.status = 200
  /\ irregular' = irregular
  /\ submitGuess_settle(i)

\* C23: no successful guess is lost: every 2xx /guess response received for
\* the current session adds its entry at the end of the guesses list and keeps
\* the entries before it, also when a second guess was submitted before the
\* first one's response arrived.
C23_NoGuessLost ==
  [][\A i \in 1..Len(calls) :
       GuessArrives(i) =>
         guesses' = Append(guesses, GuessResult(calls[i].text, calls[i].resp))]_vars

\* the places of the guesses list that hold a correct guess
CorrectEntries == { k \in 1..Len(guesses) : guesses[k].correct }

\* C24: gameWon is true exactly when the guesses list contains an entry with
\* correct = true, and such an entry is always the last entry of the list.
C24_WonIffCorrectEntry ==
  /\ gameWon <=> CorrectEntries # {}
  /\ CorrectEntries \subseteq { Len(guesses) }

\* the /reveal request of frame i is answered 2xx and the handler resumes now
RevealSucceeds(i) ==
  /\ calls[i].kind = "reveal"
  /\ calls[i].resp.status = 200
  /\ irregular' = irregular
  /\ revealAnswer_settle(i)

\* C25: gameLost is true exactly when answer is non-null: a successful reveal
\* sets both, a successful game load clears both, and no other operation
\* changes either.
C25_LostIffAnswer ==
  [][/\ gameLost' <=> answer' # NoName
     /\ \A i \in 1..Len(calls) : RevealSucceeds(i) => gameLost' /\ answer' # NoName
     /\ \A i \in 1..Len(calls) : LoadSucceedsAt(i) => ~gameLost' /\ answer' = NoName
     /\ (gameLost' # gameLost \/ answer' # answer) =>
          \E i \in 1..Len(calls) : RevealSucceeds(i) \/ LoadSucceedsAt(i)]_vars

\* C25, witness: the second game of the run, loaded after a lost first game,
\* has been lost by a reveal as well and shows the answer of its own session
C25_SecondGameLost ==
  /\ sessionId = 2 /\ store[1].status = "lost" /\ store[2].status = "lost"
  /\ gameLost /\ answer = Catalog[store[2].answer].name
  /\ calls = << >>

\* the game load of frame i fails in this step: a non-2xx answer or a rejected fetch
LoadFails(i) ==
  /\ calls[i].kind = "load"
  /\ loadGame_settle(i)
  /\ irregular' # irregular \/ calls[i].resp.status # 200

\* C26: the session-expired notice is shown only when a new session was
\* loaded: it appears only in a step in which the reload succeeds and the page
\* takes the new sessionId; when the reload that a session-expiry 404 started
\* fails, the page shows the load failure.
C26_NoticeOnlyAfterReload ==
  [][/\ (error' = SessionExpiredMsg /\ error # SessionExpiredMsg) =>
          \E i \in 1..Len(calls) : Recreated(i) /\ sessionId' # sessionId
     /\ \A i \in 1..Len(calls) :
          (LoadFails(i) /\ calls[i].cont # << >>) => error' = LoadFailedMsg]_vars

\* C27: a failed game load (non-2xx or network error) changes nothing but
\* error and loading: sessionId, seasons, gameMode, guesses, gameWon, gameLost,
\* answer and the hint flags keep their values, error becomes "Failed to load
\* game. Please refresh the page." and loading ends false.
C27_FailedLoadKeepsGame ==
  [][\A i \in 1..Len(calls) :
       LoadFails(i) =>
         /\ UNCHANGED << sessionId, seasons, gameMode, guesses, gameWon, gameLost, answer,
                         answerPfrId, showSeasons, showTeams, showAwards, guess >>
         /\ error' = LoadFailedMsg
         /\ ~loading']_vars

\* C28: the suggestion list belongs to the current input: while the guess
\* input is blank the list is empty, and a non-empty list is the response to
\* the text now in the input, also when /autocomplete responses arrive late or
\* out of order or after a guess was submitted and the input cleared.
C28_SuggestionsOfCurrentInput ==
  /\ trim(guess) = << >> => suggestions = << >>
  /\ suggestions # << >> => suggestions = suggest(guess, 10)

\* C29: in part_000 the new-game button of the end card always requests an
\* unlimited game, whatever the current mode, so after a daily game it never
\* asks for another daily session; in page.tsx the New Game button requests a
\* game of the current mode.
C29_NewGameMode ==
  [][newGame =>
       LET f == calls'[Len(calls')] IN
       /\ Len(calls') = Len(calls) + 1
       /\ f.kind = "load" /\ f.resp = NoResp
       /\ variant = "part_000" => f.mode = "unlimited" /\ endpoint(f.mode) = "/random_qb"
       /\ variant = "page" => f.mode = gameMode]_vars

\* C29, witness: part_000 holds a lost daily game behind the loading screen and
\* the only request in flight asks for an unlimited game
C29_UnlimitedAfterDaily ==
  /\ variant = "part_000"
  /\ gameMode = "daily" /\ gameLost /\ store[sessionId].mode = "daily"
  /\ loading
  /\ Len(calls) = 1 /\ calls[1].kind = "load" /\ calls[1].mode = "unlimited"
====
